---- MODULE Spec2Model ----
(***************************************************************************)
(* A model of the NameChecker cog (src/namechecker.py): the two pure       *)
(* checks, the per-server settings and their admin commands, the           *)
(* member-join handler and the checkprofile command.                       *)
(*                                                                         *)
(* Text is a sequence of code points (Latin-1 range).  A Python list of    *)
(* str is a sequence of texts; a single character in such a list is a      *)
(* text of length 1.  Python's None is the text NoneStr, which no string   *)
(* equals.                                                                 *)
(***************************************************************************)
EXTENDS Integers, Sequences, FiniteSets, TLC

VARIABLES
    \* ---- the per-server settings (Config, lines 28-32)
    alert_channel,          \* None (0) or a channel id
    prohibited_bio_words,   \* the persisted word list
    \* ---- one on_member_join invocation
    j_pc, j_member, j_env, j_words, alert_needed, issues, j_sends,
    \* ---- one checkprofile invocation
    c_pc, c_member, c_words, c_fetch, bio_content_str,
    bio_fetch_status_message, alert_would_be_needed, issues_detected,
    response_lines, c_parts, c_sends,
    \* ---- the harness of the two pure checks
    t_text, t_allowed, t_list, t_ret

vars == <<alert_channel, prohibited_bio_words,
          j_pc, j_member, j_env, j_words, alert_needed, issues, j_sends,
          c_pc, c_member, c_words, c_fetch, bio_content_str,
          bio_fetch_status_message, alert_would_be_needed, issues_detected,
          response_lines, c_parts, c_sends,
          t_text, t_allowed, t_list, t_ret>>

settingsVars == <<alert_channel, prohibited_bio_words>>
joinVars == <<j_pc, j_member, j_env, j_words, alert_needed, issues, j_sends>>
cmdVars == <<c_pc, c_member, c_words, c_fetch, bio_content_str,
             bio_fetch_status_message, alert_would_be_needed, issues_detected,
             response_lines, c_parts, c_sends>>
testVars == <<t_text, t_allowed, t_list, t_ret>>

----------------------------------------------------------------------------
(* Bounds of the harness of the pure checks.                               *)

MaxTextLen == 3
MaxListLen == 2

(* Code points used to build texts: space, A, a, E-acute, e-acute.         *)
Alphabet == {32, 65, 97, 201, 233}

(* Lowercase entries a word list is drawn from in the harness.             *)
WordPool == {<<97>>, <<233>>, <<97, 32>>, <<32, 97>>}

Range(s) == {s[i] : i \in 1..Len(s)}

SeqsUpTo(S, n) == UNION {[1..k -> S] : k \in 0..n}

Texts == SeqsUpTo(Alphabet, MaxTextLen)

WordLists == SeqsUpTo(WordPool, MaxListLen)

----------------------------------------------------------------------------
(* Python values.                                                          *)

NoneStr == <<-1>>

Truthy(s) == s # NoneStr /\ s # <<>>

(* str.lower() on one code point of the Latin-1 range.                     *)
LowerChar(c) ==
    IF c \in 65..90 THEN c + 32
    ELSE IF c \in 192..222 /\ c # 215 THEN c + 32
    ELSE c

(* str.lower(): every code point lowered, in place.                        *)
Lower(s) == [i \in 1..Len(s) |-> LowerChar(s[i])]

(* Python's `w in t` on strings: w is a contiguous slice of t.             *)
StrIn(w, t) ==
    \E i \in 0..(Len(t) - Len(w)) : SubSeq(t, i + 1, i + Len(w)) = w

(* list(dict.fromkeys(xs)): first occurrences, in order.                   *)
RECURSIVE FromKeys(_)
FromKeys(xs) ==
    IF xs = <<>> THEN <<>>
    ELSE LET front == FromKeys(SubSeq(xs, 1, Len(xs) - 1))
             last == xs[Len(xs)]
         IN IF last \in Range(front) THEN front ELSE Append(front, last)

(* list(set(xs)): the distinct elements in an order the hash table picks.  *)
ListOfSet(xs) ==
    LET S == Range(xs)
    IN {p \in [1..Cardinality(S) -> S] : Range(p) = S}

----------------------------------------------------------------------------
(* The character policies, lines 7-9.                                      *)

BASE_ALLOWED_CHARS ==
    (65..90) \cup (97..122) \cup (48..57)
    \cup (33..47) \cup (58..64) \cup (91..96) \cup (123..126)

USERNAME_ALLOWED_CHAR_SET == BASE_ALLOWED_CHARS

NICK_OR_GLOBAL_NAME_ALLOWED_CHAR_SET == BASE_ALLOWED_CHARS \cup {32}

PolicyOf(name) ==
    IF name = "username" THEN USERNAME_ALLOWED_CHAR_SET
    ELSE NICK_OR_GLOBAL_NAME_ALLOWED_CHAR_SET

----------------------------------------------------------------------------
(* _check_name_characters, lines 40-50.  The loop over name_to_check is    *)
(* the recursion on the position i; acc is (is_valid, invalid_chars).      *)

RECURSIVE CharLoop(_, _, _, _)
CharLoop(name_to_check, allowed_set, i, acc) ==
    IF i > Len(name_to_check) THEN acc
    ELSE LET char_val == <<name_to_check[i]>>
         IN IF name_to_check[i] \notin allowed_set
            THEN CharLoop(name_to_check, allowed_set, i + 1,
                          [is_valid |-> FALSE,
                           invalid_chars |->
                               IF char_val \notin Range(acc.invalid_chars)
                               THEN Append(acc.invalid_chars, char_val)
                               ELSE acc.invalid_chars])
            ELSE CharLoop(name_to_check, allowed_set, i + 1, acc)

check_name_characters_dup(name_to_check, allowed_set) ==
    IF ~Truthy(name_to_check) THEN [is_valid |-> TRUE, invalid_chars |-> <<>>]
    ELSE [is_valid |-> \A i \in 1..Len(name_to_check) :
                           name_to_check[i] \in allowed_set,
          invalid_chars |->
              SelectSeq([i \in 1..Len(name_to_check) |-> <<name_to_check[i]>>],
                        LAMBDA c : c[1] \notin allowed_set)]

check_name_characters(name_to_check, allowed_set) ==
    IF ~Truthy(name_to_check) THEN [is_valid |-> TRUE, invalid_chars |-> <<>>]
    ELSE CharLoop(name_to_check, allowed_set, 1,
                  [is_valid |-> TRUE, invalid_chars |-> <<>>])

----------------------------------------------------------------------------
(* _check_text_for_prohibited_words, lines 52-63.  WordLoop is the loop    *)
(* of lines 59-61; the result is the set of values the function can        *)
(* return, one per order list(set(found_words)) can come out in.           *)

RECURSIVE WordLoop(_, _, _, _)
WordLoop(text_to_check_lower, prohibited_words_list, i, found_words) ==
    IF i > Len(prohibited_words_list) THEN found_words
    ELSE LET banned_word == prohibited_words_list[i]
         IN WordLoop(text_to_check_lower, prohibited_words_list, i + 1,
                     IF StrIn(banned_word, text_to_check_lower)
                     THEN Append(found_words, banned_word)
                     ELSE found_words)

check_words_no_lower(text_to_check, prohibited_words_list) ==
    IF ~Truthy(text_to_check) \/ prohibited_words_list = <<>>
    THEN {[found |-> FALSE, words |-> <<>>]}
    ELSE LET found_words ==
                 WordLoop(text_to_check, prohibited_words_list, 1, <<>>)
         IN {[found |-> found_words # <<>>, words |-> p] :
                 p \in ListOfSet(found_words)}

check_text_for_prohibited_words(text_to_check, prohibited_words_list) ==
    IF ~Truthy(text_to_check) \/ prohibited_words_list = <<>>
    THEN {[found |-> FALSE, words |-> <<>>]}
    ELSE LET found_words ==
                 WordLoop(Lower(text_to_check), prohibited_words_list, 1, <<>>)
         IN {[found |-> found_words # <<>>, words |-> p] :
                 p \in ListOfSet(found_words)}

----------------------------------------------------------------------------
(* The inputs of the handlers.                                             *)

(* Names: "A", "E-acute space E-acute".                                    *)
NamePool == {<<65>>, <<201, 32, 201>>}

OptNamePool == {NoneStr, <<>>} \cup NamePool

Members ==
    [name : NamePool, nick : OptNamePool, global_name : OptNamePool]

NoMember == [name |-> <<>>, nick |-> NoneStr, global_name |-> NoneStr]

(* Arguments of the bioset commands: "A", "a", "E-acute".                  *)
ArgPool == {<<65>>, <<97>>, <<201>>}

(* The bio a fetched profile can carry: "A E-acute".                       *)
BioPool == {<<65, 32, 201>>}

NoChannel == 0

ChannelIds == {101}

(* What fetch_profile can do, lines 246-265.                               *)
FetchOutcomes ==
    {[kind |-> k, bio |-> NoneStr] :
        k \in {"no_fetch_profile", "HTTPException", "Exception", "no_profile"}}
    \cup {[kind |-> "profile", bio |-> b] : b \in {NoneStr, <<>>} \cup BioPool}

NoFetch == [kind |-> "", bio |-> NoneStr]

(* The transcript is cut into messages of 1990 characters, lines 344-347;  *)
(* its length depends on strings far longer than the model's, so the       *)
(* number of messages is an input of the model, up to MaxParts.            *)
MaxParts == 2

----------------------------------------------------------------------------
(* The settings commands, lines 146-214.                                   *)

(* lines 148-157.  What each settings command answers with ctx.send is    *)
(* not part of the state.                                                  *)
set_alert_channel_nc(channel, can_send) ==
    /\ IF channel # NoChannel
       THEN IF ~can_send
            THEN UNCHANGED alert_channel
            ELSE alert_channel' = channel
       ELSE alert_channel' = NoChannel
    /\ UNCHANGED <<prohibited_bio_words, joinVars, cmdVars, testVars>>

(* list.remove(x): the first occurrence goes, the rest keeps its order.    *)
ListRemove(list, x) ==
    LET i == CHOOSE k \in 1..Len(list) :
                 list[k] = x /\ \A h \in 1..(k - 1) : list[h] # x
    IN SubSeq(list, 1, i - 1) \o SubSeq(list, i + 1, Len(list))

AddedList_no_lower(prohibited_list, word_or_phrase) ==
    IF word_or_phrase \notin Range(prohibited_list)
    THEN Append(prohibited_list, word_or_phrase)
    ELSE prohibited_list

AddedList_no_check(prohibited_list, word_or_phrase) ==
    Append(prohibited_list, Lower(word_or_phrase))

(* lines 178-181: the list bioset_add leaves.                              *)
AddedList(prohibited_list, word_or_phrase) ==
    LET word_or_phrase_lower == Lower(word_or_phrase)
    IN IF word_or_phrase_lower \notin Range(prohibited_list)
       THEN Append(prohibited_list, word_or_phrase_lower)
       ELSE prohibited_list

bioset_add(word_or_phrase) ==
    /\ prohibited_bio_words' = AddedList(prohibited_bio_words, word_or_phrase)
    /\ UNCHANGED <<alert_channel, joinVars, cmdVars, testVars>>

(* lines 188-191: the list bioset_remove leaves.                           *)
RemovedList(prohibited_list, word_or_phrase) ==
    LET word_or_phrase_lower == Lower(word_or_phrase)
    IN IF word_or_phrase_lower \in Range(prohibited_list)
       THEN ListRemove(prohibited_list, word_or_phrase_lower)
       ELSE prohibited_list

bioset_remove(word_or_phrase) ==
    /\ prohibited_bio_words' =
           RemovedList(prohibited_bio_words, word_or_phrase)
    /\ UNCHANGED <<alert_channel, joinVars, cmdVars, testVars>>

(* lines 210-213: the list bioset_clear leaves.                            *)
ClearedList(prohibited_list) ==
    IF prohibited_list = <<>> THEN prohibited_list ELSE <<>>

bioset_clear ==
    /\ prohibited_bio_words' = ClearedList(prohibited_bio_words)
    /\ UNCHANGED <<alert_channel, joinVars, cmdVars, testVars>>

----------------------------------------------------------------------------
(* One entry of issues / issues_detected: the field it is about, the kind  *)
(* of violation, the value shown and the characters or words found.        *)

Issue(field, kind, value, found) ==
    [field |-> field, kind |-> kind, value |-> value, found |-> found]

FieldIssues_short_circuit(field, value, chars, words) ==
    IF ~chars.is_valid
    THEN <<Issue(field, "restricted characters", value, chars.invalid_chars)>>
    ELSE IF words.found
    THEN <<Issue(field, "prohibited word(s)", value, words.words)>>
    ELSE <<>>

(* The two `if` blocks that follow the two checks of one name field        *)
(* (lines 85-90, 97-102, 111-116 and 280-285, 294-299, 312-317).           *)
FieldIssues(field, value, chars, words) ==
    (IF ~chars.is_valid
     THEN <<Issue(field, "restricted characters", value, chars.invalid_chars)>>
     ELSE <<>>)
    \o (IF words.found
        THEN <<Issue(field, "prohibited word(s)", value, words.words)>>
        ELSE <<>>)

FieldFlag_chars_only(chars, words) == ~chars.is_valid

(* The assignments to alert_needed / alert_would_be_needed in those two    *)
(* blocks.                                                                 *)
FieldFlag(chars, words) == ~chars.is_valid \/ words.found

----------------------------------------------------------------------------
(* on_member_join, lines 65-136.                                           *)

FIELD_USERNAME == "Global Username"
FIELD_NICK == "Server Nickname"
FIELD_GLOBAL_NAME == "Global Display Name"
FIELD_PROFILE == "Profile Customization"
FIELD_BIO == "Bio ('About Me')"

NoEnv == [channel_id |-> NoChannel, found |-> FALSE, can_send |-> FALSE]

SendOutcomes == {"ok", "Forbidden", "HTTPException"}

(* lines 66-69: the alert channel is read; without one the handler ends.   *)
JoinBegin(member) ==
    /\ j_pc = "idle"
    /\ j_member' = member
    /\ j_env' = [NoEnv EXCEPT !.channel_id = alert_channel]
    /\ j_pc' = IF alert_channel = NoChannel THEN "done" ELSE "resolve"
    /\ UNCHANGED <<j_words, alert_needed, issues, j_sends>>
    /\ UNCHANGED <<settingsVars, cmdVars, testVars>>

(* A join event arrives while no inspection is under way. One invocation   *)
(* of a handler is followed at a time: invocations share nothing but the   *)
(* settings, and the settings commands can run between any two steps.      *)
JoinStart(member) == c_pc = "idle" /\ JoinBegin(member)

(* lines 70-79: the channel is looked up and the permission tested (what   *)
(* the guild answers is the environment's choice); then the locals are     *)
(* set and the word list is read.                                          *)
JoinResolve(found, can_send) ==
    /\ j_pc = "resolve"
    /\ found \/ ~can_send
    /\ j_env' = [j_env EXCEPT !.found = found, !.can_send = can_send]
    /\ IF ~found \/ ~can_send
       THEN /\ j_pc' = "done"
            /\ UNCHANGED <<j_words, alert_needed, issues>>
       ELSE /\ j_pc' = "username"
            /\ alert_needed' = FALSE
            /\ issues' = <<>>
            /\ j_words' = prohibited_bio_words
    /\ UNCHANGED <<j_member, j_sends>>
    /\ UNCHANGED <<settingsVars, cmdVars, testVars>>

(* lines 82-90 *)
JoinCheckUsername ==
    /\ j_pc = "username"
    /\ LET name_str == j_member.name
           chars == check_name_characters(name_str, USERNAME_ALLOWED_CHAR_SET)
       IN \E words \in check_text_for_prohibited_words(name_str, j_words) :
              /\ alert_needed' = (alert_needed \/ FieldFlag(chars, words))
              /\ issues' = issues
                     \o FieldIssues(FIELD_USERNAME, name_str, chars, words)
    /\ j_pc' = "display"
    /\ UNCHANGED <<j_member, j_env, j_words, j_sends>>
    /\ UNCHANGED <<settingsVars, cmdVars, testVars>>

JoinDisplayBranch_global_first(nick_str, global_name_str) ==
    IF Truthy(global_name_str) THEN "global_name"
    ELSE IF Truthy(nick_str) THEN "nick"
    ELSE "missing"

JoinDisplayBranch_missing_if_no_nick(nick_str, global_name_str) ==
    IF Truthy(nick_str) THEN "nick" ELSE "missing"

(* lines 93, 103, 104, 107: which of the three branches runs.              *)
JoinDisplayBranch(nick_str, global_name_str) ==
    IF Truthy(nick_str) THEN "nick"
    ELSE IF ~Truthy(global_name_str) THEN "missing"
    ELSE "global_name"

(* lines 93-116 *)
JoinCheckDisplay ==
    /\ j_pc = "display"
    /\ LET name_str == j_member.name
           nick_str == j_member.nick
           global_name_str == j_member.global_name
           branch == JoinDisplayBranch(nick_str, global_name_str)
       IN IF branch = "nick"
          THEN LET chars == check_name_characters(
                                nick_str, NICK_OR_GLOBAL_NAME_ALLOWED_CHAR_SET)
               IN \E words \in
                      check_text_for_prohibited_words(nick_str, j_words) :
                      /\ alert_needed' =
                             (alert_needed \/ FieldFlag(chars, words))
                      /\ issues' = issues
                             \o FieldIssues(FIELD_NICK, nick_str, chars, words)
          ELSE IF branch = "missing"
          THEN /\ alert_needed' = TRUE
               /\ issues' = Append(issues,
                      Issue(FIELD_PROFILE, "not set", name_str, <<>>))
          ELSE LET chars == check_name_characters(
                                global_name_str,
                                NICK_OR_GLOBAL_NAME_ALLOWED_CHAR_SET)
               IN \E words \in check_text_for_prohibited_words(
                                   global_name_str, j_words) :
                      /\ alert_needed' =
                             (alert_needed \/ FieldFlag(chars, words))
                      /\ issues' = issues
                             \o FieldIssues(FIELD_GLOBAL_NAME, global_name_str,
                                            chars, words)
    /\ j_pc' = "alert"
    /\ UNCHANGED <<j_member, j_env, j_words, j_sends>>
    /\ UNCHANGED <<settingsVars, cmdVars, testVars>>

AlertAttempts_retry(flag, found_issues, outcome) ==
    LET unique_issues == FromKeys(found_issues)
        attempt == [embed |-> unique_issues, outcome |-> outcome]
    IN IF flag /\ unique_issues # <<>>
       THEN IF outcome = "ok" THEN <<attempt>> ELSE <<attempt, attempt>>
       ELSE <<>>

(* lines 118-136: the calls of alert_channel.send one invocation makes,    *)
(* each with the embed's issues and what the call did.  Forbidden and      *)
(* HTTPException are caught and printed.                                   *)
AlertAttempts(flag, found_issues, outcome) ==
    LET unique_issues == FromKeys(found_issues)
    IN IF flag /\ unique_issues # <<>>
       THEN <<[embed |-> unique_issues, outcome |-> outcome]>>
       ELSE <<>>

(* lines 118-136 *)
JoinAlert(outcome) ==
    /\ j_pc = "alert"
    /\ j_sends' = j_sends \o AlertAttempts(alert_needed, issues, outcome)
    /\ outcome # "ok" => AlertAttempts(alert_needed, issues, outcome) # <<>>
    /\ j_pc' = "done"
    /\ UNCHANGED <<j_member, j_env, j_words, alert_needed, issues>>
    /\ UNCHANGED <<settingsVars, cmdVars, testVars>>

(* The coroutine is over; its locals go with it.                           *)
JoinReturn ==
    /\ j_pc = "done"
    /\ j_pc' = "idle"
    /\ j_member' = NoMember
    /\ j_env' = NoEnv
    /\ j_words' = <<>>
    /\ alert_needed' = FALSE
    /\ issues' = <<>>
    /\ j_sends' = <<>>
    /\ UNCHANGED <<settingsVars, cmdVars, testVars>>

----------------------------------------------------------------------------
(* check_profile_command, lines 217-349.                                   *)

(* One entry of response_lines: what the line is about, the status it      *)
(* states, the text it shows and the characters or words it lists.         *)
Line(tag, status, text, found) ==
    [tag |-> tag, status |-> status, text |-> text, found |-> found]

NoStatus == [icon |-> "", text |-> ""]

(* discord.Member.display_name, read at line 229.                          *)
DisplayName(member) ==
    IF Truthy(member.nick) THEN member.nick
    ELSE IF Truthy(member.global_name) THEN member.global_name
    ELSE member.name

ShownOrNotSet(tag, value) ==
    IF Truthy(value) THEN Line(tag, "", value, <<>>)
    ELSE Line(tag, "Not set", <<>>, <<>>)

(* lines 226-239: the member's names and the word list are read and the    *)
(* transcript is begun.                                                    *)
CmdBegin(member) ==
    /\ c_pc = "idle"
    /\ c_member' = member
    /\ c_words' = prohibited_bio_words
    /\ response_lines' =
           <<Line("Profile Check for User", "", <<>>, <<>>),
             Line("Effective Display Name", "", DisplayName(member), <<>>),
             Line("1. Global Username", "", member.name, <<>>),
             ShownOrNotSet("2. Server Nickname", member.nick),
             ShownOrNotSet("3. Global Display Name", member.global_name)>>
    /\ c_pc' = "fetch"
    /\ UNCHANGED <<c_fetch, bio_content_str, bio_fetch_status_message,
                   alert_would_be_needed, issues_detected, c_parts, c_sends>>
    /\ UNCHANGED <<settingsVars, joinVars, testVars>>

(* The command is invoked while no join event is being handled.           *)
CmdStart(member) == j_pc = "idle" /\ CmdBegin(member)

(* lines 246-265: the status message each outcome of the fetch leaves.     *)
BioFetchStatus(outcome) ==
    IF outcome.kind = "no_fetch_profile"
    THEN [icon |-> "warning", text |-> "Bio Check Skipped"]
    ELSE IF outcome.kind = "profile" /\ Truthy(outcome.bio)
    THEN [icon |-> "check", text |-> "Bio fetched"]
    ELSE IF outcome.kind = "profile"
    THEN [icon |-> "info", text |-> "Bio is set, but empty."]
    ELSE IF outcome.kind = "no_profile"
    THEN [icon |-> "warning",
          text |-> "Profile data could not be returned by the API."]
    ELSE IF outcome.kind = "HTTPException"
    THEN [icon |-> "warning",
          text |-> "Could not fetch bio due to API error"]
    ELSE [icon |-> "warning",
          text |-> "An unexpected error occurred while fetching bio"]

(* lines 253-254: the bio the evaluation gets.                             *)
BioContent(outcome) ==
    IF outcome.kind = "profile" /\ Truthy(outcome.bio)
    THEN outcome.bio ELSE NoneStr

(* lines 241-272: the bio is fetched, or not; every failure ends in a      *)
(* status message.  Then the evaluation's locals are set.                  *)
CmdFetch(outcome) ==
    /\ c_pc = "fetch"
    /\ c_fetch' = outcome
    /\ bio_content_str' = BioContent(outcome)
    /\ bio_fetch_status_message' = BioFetchStatus(outcome)
    /\ response_lines' = response_lines \o
           <<Line("4. Bio ('About Me') Status",
                  BioFetchStatus(outcome).text, <<>>, <<>>),
             Line("------------------------------", "", <<>>, <<>>),
             Line("Rule Evaluation & Flagging Status:", "", <<>>, <<>>)>>
    /\ alert_would_be_needed' = FALSE
    /\ issues_detected' = <<>>
    /\ c_pc' = "username"
    /\ UNCHANGED <<c_member, c_words, c_parts, c_sends>>
    /\ UNCHANGED <<settingsVars, joinVars, testVars>>

(* The three transcript lines of one name field (277-279, 289-293,         *)
(* 307-311).                                                               *)
FieldLines(field, value, chars, words) ==
    <<Line(field, "", value, <<>>),
      Line("Char Compliance",
           IF chars.is_valid THEN "Compliant" ELSE "NON-COMPLIANT",
           <<>>, chars.invalid_chars),
      Line("Prohibited Words",
           IF ~words.found THEN "None found" ELSE "FOUND",
           <<>>, words.words)>>

(* lines 275-285 *)
CmdCheckUsername ==
    /\ c_pc = "username"
    /\ LET name_str == c_member.name
           chars == check_name_characters(name_str, USERNAME_ALLOWED_CHAR_SET)
       IN \E words \in check_text_for_prohibited_words(name_str, c_words) :
              /\ response_lines' = response_lines
                     \o FieldLines(FIELD_USERNAME, name_str, chars, words)
              /\ alert_would_be_needed' =
                     (alert_would_be_needed \/ FieldFlag(chars, words))
              /\ issues_detected' = issues_detected
                     \o FieldIssues(FIELD_USERNAME, name_str, chars, words)
    /\ c_pc' = "display"
    /\ UNCHANGED <<c_member, c_words, c_fetch, bio_content_str,
                   bio_fetch_status_message, c_parts, c_sends>>
    /\ UNCHANGED <<settingsVars, joinVars, testVars>>

(* A stand-in that looks at the global display name before the nickname.   *)
CmdDisplayBranch_global_first(nick_str, global_name_str) ==
    IF Truthy(global_name_str) THEN "global_name"
    ELSE IF Truthy(nick_str) THEN "nick"
    ELSE "missing"

(* lines 288, 300, 302, 306: which of the three branches runs.             *)
CmdDisplayBranch(nick_str, global_name_str) ==
    IF Truthy(nick_str) THEN "nick"
    ELSE IF ~Truthy(global_name_str) THEN "missing"
    ELSE "global_name"

(* lines 288-317 *)
CmdCheckDisplay ==
    /\ c_pc = "display"
    /\ LET name_str == c_member.name
           nick_str == c_member.nick
           global_name_str == c_member.global_name
           branch == CmdDisplayBranch(nick_str, global_name_str)
       IN IF branch = "nick"
          THEN LET chars == check_name_characters(
                                nick_str, NICK_OR_GLOBAL_NAME_ALLOWED_CHAR_SET)
               IN \E words \in
                      check_text_for_prohibited_words(nick_str, c_words) :
                      /\ response_lines' = response_lines
                             \o FieldLines(FIELD_NICK, nick_str, chars, words)
                      /\ alert_would_be_needed' =
                             (alert_would_be_needed \/ FieldFlag(chars, words))
                      /\ issues_detected' = issues_detected
                             \o FieldIssues(FIELD_NICK, nick_str, chars, words)
          ELSE IF branch = "missing"
          THEN /\ response_lines' = response_lines \o
                      <<Line(FIELD_NICK, "NOT SET", <<>>, <<>>),
                        Line(FIELD_GLOBAL_NAME, "NOT SET", <<>>, <<>>)>>
               /\ alert_would_be_needed' = TRUE
               /\ issues_detected' = Append(issues_detected,
                      Issue(FIELD_PROFILE, "not set", name_str, <<>>))
          ELSE LET chars == check_name_characters(
                                global_name_str,
                                NICK_OR_GLOBAL_NAME_ALLOWED_CHAR_SET)
               IN \E words \in check_text_for_prohibited_words(
                                   global_name_str, c_words) :
                      /\ response_lines' = response_lines
                             \o <<Line(FIELD_NICK, "NOT SET", <<>>, <<>>)>>
                             \o FieldLines(FIELD_GLOBAL_NAME, global_name_str,
                                           chars, words)
                      /\ alert_would_be_needed' =
                             (alert_would_be_needed \/ FieldFlag(chars, words))
                      /\ issues_detected' = issues_detected
                             \o FieldIssues(FIELD_GLOBAL_NAME, global_name_str,
                                            chars, words)
    /\ c_pc' = "bio"
    /\ UNCHANGED <<c_member, c_words, c_fetch, bio_content_str,
                   bio_fetch_status_message, c_parts, c_sends>>
    /\ UNCHANGED <<settingsVars, joinVars, testVars>>

BIO_CHECK == "Bio ('About Me') Prohibited Words Check"

BioCheckBranch_no_status_test(bio, status) ==
    IF Truthy(bio) THEN "check" ELSE "not set"

(* lines 320, 327, 329: which of the three branches the bio check takes.   *)
BioCheckBranch(bio, status) ==
    IF Truthy(bio) THEN "check"
    ELSE IF status.icon = "warning" THEN "not performed"
    ELSE "not set"

(* lines 320-330 *)
CmdCheckBio ==
    /\ c_pc = "bio"
    /\ LET branch == BioCheckBranch(bio_content_str, bio_fetch_status_message)
       IN IF branch = "check"
          THEN \E words \in check_text_for_prohibited_words(
                                bio_content_str, c_words) :
                   IF words.found
                   THEN /\ response_lines' = response_lines \o
                               <<Line(BIO_CHECK, "FOUND", <<>>, words.words),
                                 Line("Bio Preview", "", bio_content_str,
                                      <<>>)>>
                        /\ alert_would_be_needed' = TRUE
                        /\ issues_detected' = Append(issues_detected,
                               Issue(FIELD_BIO, "prohibited word(s)",
                                     <<>>, words.words))
                   ELSE /\ response_lines' = Append(response_lines,
                               Line(BIO_CHECK, "None found", <<>>, <<>>))
                        /\ UNCHANGED <<alert_would_be_needed, issues_detected>>
          ELSE /\ response_lines' = Append(response_lines,
                      Line(BIO_CHECK,
                           IF branch = "not performed"
                           THEN "Not performed due to bio access issue."
                           ELSE "Not set, so no prohibited words.",
                           <<>>, <<>>))
               /\ UNCHANGED <<alert_would_be_needed, issues_detected>>
    /\ c_pc' = "conclude"
    /\ UNCHANGED <<c_member, c_words, c_fetch, bio_content_str,
                   bio_fetch_status_message, c_parts, c_sends>>
    /\ UNCHANGED <<settingsVars, joinVars, testVars>>

FLAGGED == "WOULD BE FLAGGED"
NOT_FLAGGED == "WOULD NOT BE FLAGGED"
CONCLUSION == "Flagging Conclusion"

(* lines 334-341: the lines that close the transcript.                     *)
ConclusionLines(flag, found_issues) ==
    IF flag
    THEN <<Line(CONCLUSION, FLAGGED, <<>>, <<>>)>>
         \o (LET unique_issues == FromKeys(found_issues)
             IN IF unique_issues # <<>>
                THEN <<Line("Reason(s):", "", <<>>, <<>>)>>
                     \o [i \in 1..Len(unique_issues) |->
                            Line(unique_issues[i].field, unique_issues[i].kind,
                                 unique_issues[i].value, unique_issues[i].found)]
                ELSE <<>>)
    ELSE <<Line(CONCLUSION, NOT_FLAGGED, <<>>, <<>>)>>

(* lines 333-345: the transcript is closed and cut into messages.          *)
CmdConclude(parts) ==
    /\ c_pc = "conclude"
    /\ response_lines' = response_lines
           \o <<Line("------------------------------", "", <<>>, <<>>)>>
           \o ConclusionLines(alert_would_be_needed, issues_detected)
    /\ c_parts' = parts
    /\ c_pc' = "send"
    /\ UNCHANGED <<c_member, c_words, c_fetch, bio_content_str,
                   bio_fetch_status_message, alert_would_be_needed,
                   issues_detected, c_sends>>
    /\ UNCHANGED <<settingsVars, joinVars, testVars>>

(* A stand-in that asks for one send more than there are messages.         *)
AfterSend_one_more(outcome, sent, parts) ==
    IF outcome # "ok" THEN "raised"
    ELSE IF sent > parts THEN "done"
    ELSE "send"

(* lines 346-349: where the command stands after a send: the loop over the *)
(* messages goes on while one is left (the single send of line 349 is the  *)
(* one-message case), and a send that raises ends the command.             *)
AfterSend(outcome, sent, parts) ==
    IF outcome # "ok" THEN "raised"
    ELSE IF sent >= parts THEN "done"
    ELSE "send"

(* lines 346-349: one ctx.send per message; a send that raises ends the    *)
(* command, nothing here catches it.                                       *)
CmdSend(outcome) ==
    /\ c_pc = "send"
    /\ c_sends' = Append(c_sends, outcome)
    /\ c_pc' = AfterSend(outcome, Len(c_sends) + 1, c_parts)
    /\ UNCHANGED <<c_member, c_words, c_fetch, bio_content_str,
                   bio_fetch_status_message, alert_would_be_needed,
                   issues_detected, response_lines, c_parts>>
    /\ UNCHANGED <<settingsVars, joinVars, testVars>>

(* The coroutine is over; its locals go with it.                           *)
CmdReturn ==
    /\ c_pc \in {"done", "raised"}
    /\ c_pc' = "idle"
    /\ c_member' = NoMember
    /\ c_words' = <<>>
    /\ c_fetch' = NoFetch
    /\ bio_content_str' = NoneStr
    /\ bio_fetch_status_message' = NoStatus
    /\ alert_would_be_needed' = FALSE
    /\ issues_detected' = <<>>
    /\ response_lines' = <<>>
    /\ c_parts' = 0
    /\ c_sends' = <<>>
    /\ UNCHANGED <<settingsVars, joinVars, testVars>>

----------------------------------------------------------------------------
(* The cog in a server: settings as registered (lines 28-32), no handler   *)
(* running.                                                                *)

NoTest == [called |-> FALSE, ok |-> FALSE, items |-> <<>>]

SettingsInit ==
    /\ alert_channel = NoChannel
    /\ prohibited_bio_words = <<>>

HandlersIdle ==
    /\ j_pc = "idle" /\ j_member = NoMember /\ j_env = NoEnv
    /\ j_words = <<>> /\ alert_needed = FALSE /\ issues = <<>>
    /\ j_sends = <<>>
    /\ c_pc = "idle" /\ c_member = NoMember /\ c_words = <<>>
    /\ c_fetch = NoFetch /\ bio_content_str = NoneStr
    /\ bio_fetch_status_message = NoStatus
    /\ alert_would_be_needed = FALSE /\ issues_detected = <<>>
    /\ response_lines = <<>> /\ c_parts = 0 /\ c_sends = <<>>

TestIdle ==
    /\ t_text = <<>> /\ t_allowed = "username" /\ t_list = <<>>
    /\ t_ret = NoTest

Init == SettingsInit /\ HandlersIdle /\ TestIdle

Next ==
    \/ \E ch \in ChannelIds \cup {NoChannel}, can_send \in BOOLEAN :
           set_alert_channel_nc(ch, can_send)
    \/ \E w \in ArgPool : bioset_add(w)
    \/ \E w \in ArgPool : bioset_remove(w)
    \/ bioset_clear
    \/ \E m \in Members : JoinStart(m)
    \/ \E found \in BOOLEAN, can_send \in BOOLEAN : JoinResolve(found, can_send)
    \/ JoinCheckUsername
    \/ JoinCheckDisplay
    \/ \E o \in SendOutcomes : JoinAlert(o)
    \/ JoinReturn
    \/ \E m \in Members : CmdStart(m)
    \/ \E o \in FetchOutcomes : CmdFetch(o)
    \/ CmdCheckUsername
    \/ CmdCheckDisplay
    \/ CmdCheckBio
    \/ \E n \in 1..MaxParts : CmdConclude(n)
    \/ \E o \in {"ok", "HTTPException"} : CmdSend(o)
    \/ CmdReturn

Spec == Init /\ [][Next]_vars

----------------------------------------------------------------------------
(* The two pure checks on their own: the arguments are drawn at the        *)
(* start, one call is made and what it returns is kept in t_ret.           *)

InitChars ==
    /\ SettingsInit /\ HandlersIdle
    /\ t_text \in Texts \cup {NoneStr}
    /\ t_allowed \in {"username", "nick_or_global_name"}
    /\ t_list = <<>>
    /\ t_ret = NoTest

CallCheckNameCharacters ==
    /\ ~t_ret.called
    /\ LET r == check_name_characters(t_text, PolicyOf(t_allowed))
       IN t_ret' = [called |-> TRUE, ok |-> r.is_valid,
                    items |-> r.invalid_chars]
    /\ UNCHANGED <<t_text, t_allowed, t_list>>
    /\ UNCHANGED <<settingsVars, joinVars, cmdVars>>

SpecChars == InitChars /\ [][CallCheckNameCharacters]_vars

InitWords ==
    /\ SettingsInit /\ HandlersIdle
    /\ t_text \in Texts \cup {NoneStr}
    /\ t_allowed = "username"
    /\ t_list \in WordLists
    /\ t_ret = NoTest

CallCheckProhibitedWords ==
    /\ ~t_ret.called
    /\ \E r \in check_text_for_prohibited_words(t_text, t_list) :
           t_ret' = [called |-> TRUE, ok |-> r.found, items |-> r.words]
    /\ UNCHANGED <<t_text, t_allowed, t_list>>
    /\ UNCHANGED <<settingsVars, joinVars, cmdVars>>

SpecWords == InitWords /\ [][CallCheckProhibitedWords]_vars

----------------------------------------------------------------------------
(* What the claims are stated with.                                        *)

NoDup(s) == \A i, j \in 1..Len(s) : s[i] = s[j] => i = j

(* The first position of code point c in text t.                           *)
FirstAt(t, c) == CHOOSE i \in 1..Len(t) : t[i] = c /\ \A h \in 1..(i - 1) : t[h] # c

(* w occurs in t as a run of adjacent characters.                          *)
Occurs(w, t) ==
    \E i \in 1..(Len(t) + 1) :
        /\ i + Len(w) - 1 <= Len(t)
        /\ \A k \in 1..Len(w) : t[i + k - 1] = w[k]

----------------------------------------------------------------------------
(* C4: checkCharacters returns compliant = true iff every character of     *)
(* the text is in the policy set (an empty or absent text gives            *)
(* (true, [])); invalidChars is the sequence of the distinct characters    *)
(* of the text outside the policy set, each once, in order of first        *)
(* occurrence; so compliant is true iff invalidChars is empty.             *)
C4_CheckCharacters ==
    t_ret.called =>
        LET allowed == PolicyOf(t_allowed)
            bad == IF Truthy(t_text)
                   THEN {t_text[i] : i \in 1..Len(t_text)} \ allowed
                   ELSE {}
        IN /\ t_ret.ok = (bad = {})
           /\ ~Truthy(t_text) => (t_ret.ok /\ t_ret.items = <<>>)
           /\ NoDup(t_ret.items)
           /\ Range(t_ret.items) = {<<c>> : c \in bad}
           /\ \A i, j \in 1..Len(t_ret.items) :
                  i < j => FirstAt(t_text, t_ret.items[i][1])
                           < FirstAt(t_text, t_ret.items[j][1])
           /\ t_ret.ok = (t_ret.items = <<>>)

(* A call on a text with two different characters outside the policy,      *)
(* one of them twice.                                                      *)
C4_Witness ==
    /\ t_ret.called /\ ~t_ret.ok
    /\ Len(t_ret.items) = 2
    /\ Len(t_text) = 3
    /\ \A i \in 1..3 : t_text[i] \notin PolicyOf(t_allowed)

(* C5: checkProhibitedWords returns (false, empty) when the text or the    *)
(* list is empty; otherwise the matches, as a set, are the list entries    *)
(* that occur as a contiguous substring of the lower-cased text, none      *)
(* repeated, and matched is true iff there is one.                         *)
C5_CheckProhibitedWords ==
    t_ret.called =>
        IF ~Truthy(t_text) \/ t_list = <<>>
        THEN ~t_ret.ok /\ t_ret.items = <<>>
        ELSE /\ Range(t_ret.items) =
                    {w \in Range(t_list) : Occurs(w, Lower(t_text))}
             /\ NoDup(t_ret.items)
             /\ t_ret.ok = (Range(t_ret.items) # {})

(* A call where an entry listed twice matches, and only because the text   *)
(* is lower-cased.                                                         *)
C5_Witness ==
    /\ t_ret.called /\ t_ret.ok
    /\ Len(t_list) = 2 /\ t_list[1] = t_list[2]
    /\ t_ret.items = <<t_list[1]>>
    /\ ~Occurs(t_list[1], t_text)

----------------------------------------------------------------------------
(* What an evaluation is expected to find, stated from the member's        *)
(* names, the word list it read and the bio it got.  The characters or     *)
(* words of a finding are compared as a set.                               *)

BadChars(text, allowed) == {text[i] : i \in 1..Len(text)} \ allowed

Hits(text, words) == {w \in Range(words) : Occurs(w, Lower(text))}

Finding(field, kind, value, found) ==
    [field |-> field, kind |-> kind, value |-> value, found |-> found]

ExpField(field, value, allowed, words) ==
    (IF BadChars(value, allowed) # {}
     THEN <<Finding(field, "restricted characters", value,
                    {<<c>> : c \in BadChars(value, allowed)})>>
     ELSE <<>>)
    \o (IF Hits(value, words) # {}
        THEN <<Finding(field, "prohibited word(s)", value,
                       Hits(value, words))>>
        ELSE <<>>)

ExpUsername(m, words) ==
    ExpField(FIELD_USERNAME, m.name, USERNAME_ALLOWED_CHAR_SET, words)

ExpDisplay(m, words) ==
    IF Truthy(m.nick)
    THEN ExpField(FIELD_NICK, m.nick,
                  NICK_OR_GLOBAL_NAME_ALLOWED_CHAR_SET, words)
    ELSE IF Truthy(m.global_name)
    THEN ExpField(FIELD_GLOBAL_NAME, m.global_name,
                  NICK_OR_GLOBAL_NAME_ALLOWED_CHAR_SET, words)
    ELSE <<Finding(FIELD_PROFILE, "not set", m.name, {})>>

ExpBio(bio, words) ==
    IF Truthy(bio) /\ Hits(bio, words) # {}
    THEN <<Finding(FIELD_BIO, "prohibited word(s)", <<>>, Hits(bio, words))>>
    ELSE <<>>

AsFindings(found_issues) ==
    [i \in 1..Len(found_issues) |->
        Finding(found_issues[i].field, found_issues[i].kind,
                found_issues[i].value, Range(found_issues[i].found))]

OfField(findings, field) == SelectSeq(findings, LAMBDA f : f.field = field)

OfTag(lines, tag) == SelectSeq(lines, LAMBDA l : l.tag = tag)

(* The transcript's lines after its conclusion line.                       *)
AfterConclusion(lines) ==
    LET k == CHOOSE i \in 1..Len(lines) : lines[i].tag = CONCLUSION
    IN SubSeq(lines, k + 1, Len(lines))

(* Where the two handlers are.                                             *)
JoinEvaluating == j_pc \in {"username", "display", "alert"}
JoinEvaluated ==
    j_pc = "alert" \/ (j_pc = "done" /\ j_env.found /\ j_env.can_send)
CmdPastDisplay == c_pc \in {"bio", "conclude", "send", "done", "raised"}
CmdEvaluated == c_pc \in {"conclude", "send", "done", "raised"}
CmdConcluded == c_pc \in {"send", "done", "raised"}

(* The bio the fetch gave the command, if any.                             *)
FetchedBio == IF c_fetch.kind = "profile" THEN c_fetch.bio ELSE NoneStr

----------------------------------------------------------------------------
(* C1: when the server nickname is present, neither handler evaluates the  *)
(* platform display name: no finding is tagged "Global Display Name",      *)
(* whatever the display name holds, and the nickname is checked against    *)
(* the display-name policy (space allowed) and the word list, its          *)
(* findings tagged "Server Nickname".                                      *)
C1_NicknamePrecedence ==
    /\ (JoinEvaluated /\ Truthy(j_member.nick)) =>
           /\ OfField(AsFindings(issues), FIELD_GLOBAL_NAME) = <<>>
           /\ OfField(AsFindings(issues), FIELD_NICK) =
                  ExpField(FIELD_NICK, j_member.nick,
                           BASE_ALLOWED_CHARS \cup {32}, j_words)
    /\ (CmdPastDisplay /\ Truthy(c_member.nick)) =>
           /\ OfField(AsFindings(issues_detected), FIELD_GLOBAL_NAME) = <<>>
           /\ OfTag(response_lines, FIELD_GLOBAL_NAME) = <<>>
           /\ OfField(AsFindings(issues_detected), FIELD_NICK) =
                  ExpField(FIELD_NICK, c_member.nick,
                           BASE_ALLOWED_CHARS \cup {32}, c_words)

(* The join handler has evaluated a member whose nickname breaks both      *)
(* policies and whose display name holds a prohibited word.                *)
C1_Witness ==
    /\ j_pc = "alert"
    /\ j_member.nick = <<201, 32, 201>>
    /\ j_member.global_name = <<65>>
    /\ Hits(j_member.global_name, j_words) # {}
    /\ Len(OfField(issues, FIELD_NICK)) = 2

C2_Branches(found_issues, m) ==
    LET missing == Len(OfField(found_issues, FIELD_PROFILE))
        nick == Len(OfField(found_issues, FIELD_NICK))
        global == Len(OfField(found_issues, FIELD_GLOBAL_NAME))
    IN /\ missing = IF ~Truthy(m.nick) /\ ~Truthy(m.global_name)
                    THEN 1 ELSE 0
       /\ nick > 0 => Truthy(m.nick)
       /\ global > 0 => ~Truthy(m.nick) /\ Truthy(m.global_name)

(* C2: a missing-display-identity ("Profile Customization") finding is     *)
(* among the findings iff the server nickname and the platform display     *)
(* name are both absent or empty, and then exactly once; findings of the   *)
(* nickname appear only when it is present, findings of the display name   *)
(* only when the nickname is absent and the display name present.          *)
C2_MissingDisplayIdentity ==
    /\ JoinEvaluated => C2_Branches(issues, j_member)
    /\ ~JoinEvaluated => OfField(issues, FIELD_PROFILE) = <<>>
    /\ \A i \in 1..Len(j_sends) : C2_Branches(j_sends[i].embed, j_member)
    /\ CmdPastDisplay => C2_Branches(issues_detected, c_member)
    /\ ~CmdPastDisplay => OfField(issues_detected, FIELD_PROFILE) = <<>>
    /\ CmdConcluded =>
           Len(OfTag(response_lines, FIELD_PROFILE)) =
               IF ~Truthy(c_member.nick) /\ ~Truthy(c_member.global_name)
               THEN 1 ELSE 0

(* The command has evaluated a member with an empty nickname and no        *)
(* display name.                                                           *)
C2_Witness ==
    /\ c_pc = "done"
    /\ c_member.nick = <<>> /\ c_member.global_name = NoneStr
    /\ Len(OfField(issues_detected, FIELD_PROFILE)) = 1

(* C3: at every point of an evaluation and in its result the flag is true  *)
(* iff the findings are not empty: an alert is sent only with at least     *)
(* one reason, and the command concludes FLAGGED, with at least one        *)
(* reason listed, iff it has a finding.                                    *)
C3_FlagIffFindings ==
    /\ alert_needed = (issues # <<>>)
    /\ alert_would_be_needed = (issues_detected # <<>>)
    /\ j_pc = "done" => /\ (j_sends # <<>>) = alert_needed
                        /\ \A i \in 1..Len(j_sends) : j_sends[i].embed # <<>>
    /\ CmdConcluded =>
           LET conclusion == OfTag(response_lines, CONCLUSION)
           IN /\ Len(conclusion) = 1
              /\ conclusion[1].status =
                     IF issues_detected # <<>> THEN FLAGGED ELSE NOT_FLAGGED
              /\ Len(AfterConclusion(response_lines)) =
                     IF issues_detected # <<>>
                     THEN 1 + Len(issues_detected) ELSE 0

(* The command is between two checks, flagged, with a finding of each      *)
(* kind for the username.                                                  *)
C3_Witness ==
    /\ c_pc = "display"
    /\ alert_would_be_needed
    /\ Len(issues_detected) = 2

(* C6: evaluation does not short-circuit: the findings are, in this        *)
(* order, the username's character violation, the username's word         *)
(* violation, the display identity's findings (character then word         *)
(* violation of the nickname or display name, or the one missing-identity  *)
(* finding) and last the bio's word violation, each present iff its own    *)
(* check failed; the bio gets no character check.                          *)
C6_FindingsInOrder ==
    /\ j_pc = "display" =>
           AsFindings(issues) = ExpUsername(j_member, j_words)
    /\ JoinEvaluated =>
           AsFindings(issues) =
               ExpUsername(j_member, j_words) \o ExpDisplay(j_member, j_words)
    /\ c_pc = "display" =>
           AsFindings(issues_detected) = ExpUsername(c_member, c_words)
    /\ c_pc = "bio" =>
           AsFindings(issues_detected) =
               ExpUsername(c_member, c_words) \o ExpDisplay(c_member, c_words)
    /\ CmdEvaluated =>
           AsFindings(issues_detected) =
               ExpUsername(c_member, c_words) \o ExpDisplay(c_member, c_words)
               \o ExpBio(FetchedBio, c_words)

(* The command has evaluated a member whose username, nickname and bio     *)
(* each fail every check made on them: five findings, and the bio, which   *)
(* holds characters outside both policies, has only its word finding.      *)
C6_Witness ==
    /\ c_pc = "conclude"
    /\ Len(issues_detected) = 5
    /\ BadChars(FetchedBio, NICK_OR_GLOBAL_NAME_ALLOWED_CHAR_SET) # {}
    /\ Len(OfField(issues_detected, FIELD_BIO)) = 1

----------------------------------------------------------------------------
C7_ListStep ==
    \/ prohibited_bio_words' = prohibited_bio_words
    \/ \E w \in ArgPool :
           /\ Lower(w) \notin Range(prohibited_bio_words)
           /\ prohibited_bio_words' = Append(prohibited_bio_words, Lower(w))
    \/ \E i \in 1..Len(prohibited_bio_words) :
           prohibited_bio_words' =
               SubSeq(prohibited_bio_words, 1, i - 1)
               \o SubSeq(prohibited_bio_words, i + 1, Len(prohibited_bio_words))
    \/ prohibited_bio_words' = <<>>

C8_NoOpsAndFrame ==
    [][/\ prohibited_bio_words' # prohibited_bio_words =>
              /\ \A w \in ArgPool :
                     ~(/\ Lower(w) \in Range(prohibited_bio_words)
                       /\ bioset_add(w))
              /\ \A w \in ArgPool :
                     ~(/\ Lower(w) \notin Range(prohibited_bio_words)
                       /\ bioset_remove(w))
              /\ ~(prohibited_bio_words = <<>> /\ bioset_clear)
       /\ alert_channel' # alert_channel =>
              /\ \A w \in ArgPool : ~bioset_add(w) /\ ~bioset_remove(w)
              /\ ~bioset_clear]_vars

(* A channel is set and the list holds "a": adding "A" and removing        *)
(* "E-acute" are both possible here and both change nothing.               *)
C8_Witness ==
    /\ alert_channel # NoChannel
    /\ prohibited_bio_words = <<<<97>>>>
    /\ ENABLED (bioset_add(<<65>>) /\ UNCHANGED vars)
    /\ ENABLED (bioset_remove(<<201>>) /\ UNCHANGED vars)

(* C9: a join event makes at most one send attempt: exactly one iff an     *)
(* alert channel is configured, it resolves, the bot may send in it and    *)
(* the evaluation flagged the member; otherwise none; a send that fails    *)
(* with Forbidden or HTTPException is caught and not retried.              *)
C9_AtMostOneAlert ==
    /\ Len(j_sends) <= 1
    /\ j_pc # "done" => j_sends = <<>>
    /\ j_pc = "done" =>
           (Len(j_sends) = 1) =
               (/\ j_env.channel_id # NoChannel
                /\ j_env.found
                /\ j_env.can_send
                /\ ExpUsername(j_member, j_words)
                       \o ExpDisplay(j_member, j_words) # <<>>)
    /\ (j_sends # <<>> /\ j_sends[1].outcome # "ok") =>
           j_pc = "done" /\ ENABLED JoinReturn

(* The handler is over after one send, which was refused.                  *)
C9_Witness ==
    /\ j_pc = "done"
    /\ Len(j_sends) = 1
    /\ j_sends[1].outcome = "Forbidden"

BioUnavailable ==
    c_fetch.kind \in
        {"no_fetch_profile", "HTTPException", "Exception", "no_profile"}

(* The steps a command takes: from the fetch, whatever it did, through     *)
(* the three checks to the conclusion and the sends; only a send that      *)
(* raises ends it early.                                                   *)
C10_Path ==
    {<<"idle", "fetch">>, <<"fetch", "username">>, <<"username", "display">>,
     <<"display", "bio">>, <<"bio", "conclude">>, <<"conclude", "send">>,
     <<"send", "done">>, <<"send", "raised">>,
     <<"done", "idle">>, <<"raised", "idle">>}

C10_AtConclusion ==
    /\ c_pc = "raised" => c_sends # <<>> /\ c_sends[Len(c_sends)] # "ok"
    /\ CmdConcluded =>
           LET conclusion == OfTag(response_lines, CONCLUSION)
           IN /\ Len(conclusion) = 1
              /\ conclusion[1].status \in {FLAGGED, NOT_FLAGGED}
              /\ (conclusion[1].status = FLAGGED) =
                     (ExpUsername(c_member, c_words)
                      \o ExpDisplay(c_member, c_words)
                      \o ExpBio(FetchedBio, c_words) # <<>>)
    /\ (CmdEvaluated /\ BioUnavailable) =>
           /\ AsFindings(issues_detected) =
                  ExpUsername(c_member, c_words) \o ExpDisplay(c_member, c_words)
           /\ OfField(issues_detected, FIELD_BIO) = <<>>
           /\ OfTag(response_lines, BIO_CHECK) =
                  <<Line(BIO_CHECK, "Not performed due to bio access issue.",
                         <<>>, <<>>)>>

(* C10: whatever the bio fetch does, the command goes on to its            *)
(* conclusion, which is FLAGGED or NOT FLAGGED; when the fetch gave no     *)
(* profile (no fetch_profile, API error, other exception, nothing          *)
(* returned), the name checks are evaluated as with no bio, the bio word   *)
(* check is reported as not performed and there is no bio finding.         *)
C10_CommandConcludes ==
    /\ []C10_AtConclusion
    /\ [][c_pc' # c_pc => <<c_pc, c_pc'>> \in C10_Path]_vars

(* The command is over after a fetch that raised; it reported a member     *)
(* with a clean profile as not flagged and the bio check as not performed. *)
C10_Witness ==
    /\ c_pc = "done"
    /\ c_fetch.kind = "Exception"
    /\ c_words # <<>>
    /\ OfTag(response_lines, CONCLUSION)[1].status = NOT_FLAGGED
    /\ Len(OfTag(response_lines, BIO_CHECK)) = 1

(***************************************************************************)
(* The sends of an invocation and the evaluation before them.              *)
(***************************************************************************)

(* Every send the invocation in flight has made came after its evaluation: *)
(* the join handler is past its alert step, the command past its           *)
(* conclusion.                                                             *)
SendsAfterEvaluation ==
    /\ j_sends # <<>> => j_pc = "done"
    /\ c_sends # <<>> => CmdConcluded

(* A step that sends is the send step of its handler and adds one send;    *)
(* once a handler has sent, what it evaluated stays as it was until the    *)
(* handler returns.                                                        *)
SendStep ==
    /\ (j_sends' # j_sends /\ j_pc' # "idle") =>
           /\ j_pc = "alert"
           /\ Len(j_sends') = Len(j_sends) + 1
           /\ UNCHANGED <<alert_needed, issues>>
    /\ (c_sends' # c_sends /\ c_pc' # "idle") =>
           /\ c_pc = "send"
           /\ Len(c_sends') = Len(c_sends) + 1
           /\ UNCHANGED <<alert_would_be_needed, issues_detected,
                          response_lines>>
    /\ (j_sends # <<>> /\ j_pc' # "idle") =>
           UNCHANGED <<alert_needed, issues>>
    /\ (c_sends # <<>> /\ c_pc' # "idle") =>
           UNCHANGED <<alert_would_be_needed, issues_detected,
                       response_lines>>

(* The statement as written: no invocation of either handler sends more    *)
(* than once, and every send comes after the evaluation.                   *)
C11_AtMostOneSendEach ==
    /\ Len(j_sends) <= 1
    /\ Len(c_sends) <= 1
    /\ SendsAfterEvaluation

(* The sends of the command against the messages of its transcript: never  *)
(* more sends than messages, all of them made once the command is through, *)
(* one still owed while it is sending, and only the last may have raised.  *)
CmdSendsPerMessage ==
    /\ CmdConcluded => c_parts >= 1 /\ Len(c_sends) <= c_parts
    /\ c_pc = "send" => Len(c_sends) < c_parts
    /\ c_pc = "done" => Len(c_sends) = c_parts
    /\ c_pc = "raised" => c_sends # <<>> /\ c_sends[Len(c_sends)] # "ok"
    /\ \A i \in 1..(Len(c_sends) - 1) : c_sends[i] = "ok"

(* C11: the join handler makes at most one send per invocation; the        *)
(* inspection command makes one send per message of its transcript, one    *)
(* message when the transcript has at most 1990 characters and one per     *)
(* slice of 1990 otherwise, stopping at a send that raises; in both, every *)
(* send comes after the evaluation of all fields has finished, none        *)
(* before or between the field checks.                                     *)
C11_SendsAfterEvaluation ==
    /\ [](Len(j_sends) <= 1 /\ CmdSendsPerMessage /\ SendsAfterEvaluation)
    /\ [][SendStep]_vars

(* The command is through a transcript of two messages, a finding in it,   *)
(* with two sends.                                                         *)
C11_Witness ==
    /\ c_pc = "done"
    /\ c_parts = 2
    /\ Len(c_sends) = 2
    /\ issues_detected # <<>>

(***************************************************************************)
(* One member under both handlers: the member joins and is inspected, in   *)
(* any interleaving of the two coroutines, while the settings stay as they *)
(* are, so that both read the same word list.                              *)
(***************************************************************************)

(* The lists the settings commands can have stored from the arguments.     *)
StoredLists ==
    {l \in SeqsUpTo({Lower(w) : w \in ArgPool}, MaxListLen) : NoDup(l)}

InitBoth ==
    /\ alert_channel \in ChannelIds \cup {NoChannel}
    /\ prohibited_bio_words \in StoredLists
    /\ HandlersIdle
    /\ TestIdle

(* The join event of the member, who may be under inspection already.      *)
BothJoin(member) ==
    /\ c_member \in {NoMember, member}
    /\ JoinBegin(member)

(* The inspection of the member, whose join may be in handling already.    *)
BothInspect(member) ==
    /\ j_member \in {NoMember, member}
    /\ CmdBegin(member)

NextBoth ==
    \/ \E m \in Members : BothJoin(m)
    \/ \E found \in BOOLEAN, can_send \in BOOLEAN : JoinResolve(found, can_send)
    \/ JoinCheckUsername
    \/ JoinCheckDisplay
    \/ \E o \in SendOutcomes : JoinAlert(o)
    \/ \E m \in Members : BothInspect(m)
    \/ \E o \in FetchOutcomes : CmdFetch(o)
    \/ CmdCheckUsername
    \/ CmdCheckDisplay
    \/ CmdCheckBio
    \/ \E n \in 1..MaxParts : CmdConclude(n)
    \/ \E o \in {"ok", "HTTPException"} : CmdSend(o)

SpecBoth == InitBoth /\ [][NextBoth]_vars

(* Both handlers are through the same member under the same word list, the *)
(* join handler with its alert channel found and sendable.                 *)
BothThrough ==
    /\ j_pc = "done" /\ j_env.found /\ j_env.can_send
    /\ CmdConcluded
    /\ j_member = c_member
    /\ j_words = c_words

(* The join handler raised an alert: it made its send.                     *)
JoinAlerted == j_sends # <<>>

(* The command's transcript concludes WOULD BE FLAGGED.                    *)
CmdFlagged ==
    LET conclusion == OfTag(response_lines, CONCLUSION)
    IN Len(conclusion) = 1 /\ conclusion[1].status = FLAGGED

(* C12: for one member and one word list, the findings of the inspection   *)
(* command are those of the join handler, field by field, kind by kind and *)
(* in the same order, followed by at most one finding on the bio, which    *)
(* the join handler never has; without a bio finding (no bio among them)   *)
(* the join handler alerts iff the command concludes WOULD BE FLAGGED; in  *)
(* every case an alert implies that conclusion, and a flagged conclusion   *)
(* without an alert rests on the bio finding alone. The two agree after    *)
(* the username check already.                                             *)
C12_SameEvaluation ==
    /\ (/\ j_pc = "display" /\ c_pc = "display"
        /\ j_member = c_member /\ j_words = c_words) =>
           /\ AsFindings(issues) = AsFindings(issues_detected)
           /\ alert_needed = alert_would_be_needed
    /\ BothThrough =>
           LET join == AsFindings(issues)
               cmd == AsFindings(issues_detected)
               bio == OfField(cmd, FIELD_BIO)
           IN /\ OfField(join, FIELD_BIO) = <<>>
              /\ Len(bio) <= 1
              /\ cmd = join \o bio
              /\ ~Truthy(bio_content_str) => bio = <<>>
              /\ bio = <<>> => (JoinAlerted = CmdFlagged)
              /\ JoinAlerted => CmdFlagged
              /\ (CmdFlagged /\ ~JoinAlerted) => (bio # <<>> /\ join = <<>>)

(* Both are through a member with a finding on the username and one on the *)
(* nickname: the join handler alerted with the two, the command concluded  *)
(* flagged with the same two and the bio's after them.                     *)
C12_Witness ==
    /\ BothThrough
    /\ JoinAlerted /\ CmdFlagged
    /\ Len(issues) >= 2
    /\ issues[1].field = FIELD_USERNAME
    /\ issues[Len(issues)].field = FIELD_NICK
    /\ Len(issues_detected) = Len(issues) + 1
    /\ issues_detected[Len(issues_detected)].field = FIELD_BIO

====
